---- MODULE Spec2Model ----
(***************************************************************************)
(* Model of rankhaus: the ranking engines behind the RankStrategy trait    *)
(* (MergeStrategy, QuickSortStrategy), the session journal and the replay  *)
(* / snapshot resume paths.                                                *)
(*                                                                         *)
(* An Id is a newtype over String; ids are modelled as the numbers         *)
(* 1..MaxItems, whose numeric order stands for the string order that the   *)
(* comparison key uses.  Option<usize> is modelled as 0 (None) or a        *)
(* 1-based index into merge_stack.  Option<(Id, Id)> is <<>> (None) or a   *)
(* pair <<a, b>>.                                                          *)
(***************************************************************************)
EXTENDS Naturals, Integers, Sequences, FiniteSets, TLC

\* Largest number of items an engine is built over.
MaxItems == 4

Ids == 1..MaxItems

NoSource == 0

None == <<>>

VARIABLES strategy, journal, asked, ret, other, trace, pos, phase,
          rankset, store, ranking, launches

vars == <<strategy, journal, asked, ret, other, trace, pos, phase,
          rankset, store, ranking, launches>>

\* AppState::new: no rankset is loaded (`rankset: None`), no file is written
\* and no ranking session is running; the engine is driven directly.
NoRankSet ==
    /\ rankset = None
    /\ store = None
    /\ ranking = None
    /\ launches = 0

----------------------------------------------------------------------------
(* Helpers over sequences *)

Range(s) == {s[i] : i \in DOMAIN s}

IsDistinct(s) == \A i, j \in DOMAIN s : i # j => s[i] # s[j]

\* All lists of distinct ids of length n.
DistinctSeqs(n) == {s \in [1..n -> Ids] : IsDistinct(s)}

ItemLists == UNION {DistinctSeqs(n) : n \in 0..MaxItems}

\* Orders (best first) over the items of a list.
Orders(items) ==
    {p \in ItemLists : Len(p) = Len(items) /\ Range(p) = Range(items)}

\* Position of x in the order p (1 = best).
RankOf(p, x) == CHOOSE i \in DOMAIN p : p[i] = x

Preferred(p, a, b) == IF RankOf(p, a) < RankOf(p, b) THEN a ELSE b

----------------------------------------------------------------------------
(* MergeStrategy *)

MergeOp(l, r, ls, rs) ==
    [left |-> l, right |-> r, left_idx |-> 0, right_idx |-> 0,
     result |-> <<>>, left_source |-> ls, right_source |-> rs]

\* Variant of PairLevel that drops an unpaired trailing run.
RECURSIVE PairLevel_DropOdd(_, _, _, _)
PairLevel_DropOdd(sublists, sources, i, acc) ==
    IF i + 1 > Len(sublists) THEN acc
    ELSE PairLevel_DropOdd(sublists, sources, i + 2,
           [stack |-> Append(acc.stack,
                         MergeOp(sublists[i], sublists[i + 1],
                                 sources[i], sources[i + 1])),
            level |-> Append(acc.level, sublists[i] \o sublists[i + 1]),
            srcs  |-> Append(acc.srcs, Len(acc.stack) + 1)])

\* One level of initialize_merge_sort: the inner `while i < sublists.len()`.
\* i is 1-based; acc carries merge_stack, next_level and next_sources.
RECURSIVE PairLevel(_, _, _, _)
PairLevel(sublists, sources, i, acc) ==
    IF i > Len(sublists) THEN acc
    ELSE IF i + 1 <= Len(sublists)
         THEN PairLevel(sublists, sources, i + 2,
                [stack |-> Append(acc.stack,
                              MergeOp(sublists[i], sublists[i + 1],
                                      sources[i], sources[i + 1])),
                 level |-> Append(acc.level, sublists[i] \o sublists[i + 1]),
                 srcs  |-> Append(acc.srcs, Len(acc.stack) + 1)])
         ELSE PairLevel(sublists, sources, i + 1,
                [stack |-> acc.stack,
                 level |-> Append(acc.level, sublists[i]),
                 srcs  |-> Append(acc.srcs, sources[i])])

\* The outer `while sublists.len() > 1`.
RECURSIVE BuildLevels(_, _, _)
BuildLevels(sublists, sources, stack) ==
    IF Len(sublists) <= 1 THEN stack
    ELSE LET acc == PairLevel(sublists, sources, 1,
                        [stack |-> stack, level |-> <<>>, srcs |-> <<>>])
         IN BuildLevels(acc.level, acc.srcs, acc.stack)

initialize_merge_sort(items) ==
    BuildLevels([i \in 1..Len(items) |-> <<items[i]>>],
                [i \in 1..Len(items) |-> NoSource], <<>>)

EmptyLedger == [k \in {} |-> 0]

\* Variant of new that treats only the empty list as already sorted.
new_OnlyEmpty(items) ==
    [items |-> items,
     comparisons |-> EmptyLedger,
     state |-> IF Len(items) = 0
               THEN [merge_stack |-> <<>>, sorted |-> <<>>, completed |-> TRUE]
               ELSE [merge_stack |-> initialize_merge_sort(items),
                     sorted |-> <<>>, completed |-> FALSE]]

new(items) ==
    [items |-> items,
     comparisons |-> EmptyLedger,
     state |-> IF Len(items) = 0
               THEN [merge_stack |-> <<>>, sorted |-> <<>>, completed |-> TRUE]
               ELSE IF Len(items) = 1
               THEN [merge_stack |-> <<>>, sorted |-> items, completed |-> TRUE]
               ELSE [merge_stack |-> initialize_merge_sort(items),
                     sorted |-> <<>>, completed |-> FALSE]]

\* get_comparison_key / make_comparison_key: the pair in string order.
make_comparison_key(a, b) == IF a < b THEN <<a, b>> ELSE <<b, a>>

\* Variant of get_comparison_key that keeps the arguments in call order.
get_comparison_key_AsGiven(a, b) == <<a, b>>

get_comparison_key(a, b) == IF a < b THEN <<a, b>> ELSE <<b, a>>

\* HashMap::insert
Insert(m, k, v) == [x \in (DOMAIN m) \cup {k} |-> IF x = k THEN v ELSE m[x]]

get_winner(comparisons, a, b) ==
    LET key == get_comparison_key(a, b)
    IN IF key \in DOMAIN comparisons
       THEN (IF comparisons[key] = a THEN <<a>> ELSE <<b>>)
       ELSE None

OpDone(op) == op.left_idx = Len(op.left) /\ op.right_idx = Len(op.right)

\* Variant of SubstLeft that clears the link but keeps the placeholder.
SubstLeft_KeepPlaceholder(stack, idx) ==
    LET src == stack[idx].left_source
    IN IF src # NoSource /\ OpDone(stack[src]) /\ stack[src].result # <<>>
          /\ stack[idx].left_idx = 0 /\ stack[idx].result = <<>>
       THEN [stack EXCEPT ![idx].left_source = NoSource]
       ELSE stack

\* First pass of process_merges: substitute the outputs of completed sources.
SubstLeft(stack, idx) ==
    LET src == stack[idx].left_source
    IN IF src # NoSource /\ OpDone(stack[src]) /\ stack[src].result # <<>>
          /\ stack[idx].left_idx = 0 /\ stack[idx].result = <<>>
       THEN [stack EXCEPT ![idx].left = stack[src].result,
                          ![idx].left_source = NoSource]
       ELSE stack

SubstRight(stack, idx) ==
    LET src == stack[idx].right_source
    IN IF src # NoSource /\ OpDone(stack[src]) /\ stack[src].result # <<>>
          /\ stack[idx].right_idx = 0 /\ stack[idx].result = <<>>
       THEN [stack EXCEPT ![idx].right = stack[src].result,
                          ![idx].right_source = NoSource]
       ELSE stack

\* Variant of FirstPass that never substitutes a source's output.
FirstPass_Never(stack, idx) == stack

RECURSIVE FirstPass(_, _)
FirstPass(stack, idx) ==
    IF idx > Len(stack) THEN stack
    ELSE FirstPass(SubstRight(SubstLeft(stack, idx), idx), idx + 1)

\* Variant of Advance that takes the left item whenever the pair is known.
RECURSIVE Advance_LeftFirst(_, _)
Advance_LeftFirst(comparisons, op) ==
    IF op.left_idx < Len(op.left) /\ op.right_idx < Len(op.right)
    THEN LET left_item  == op.left[op.left_idx + 1]
             right_item == op.right[op.right_idx + 1]
             key == make_comparison_key(left_item, right_item)
         IN IF key \in DOMAIN comparisons
            THEN Advance_LeftFirst(comparisons,
                    [op EXCEPT !.result = Append(@, left_item),
                               !.left_idx = @ + 1])
            ELSE op
    ELSE op

\* The `while made_progress && ...` loop of the second pass.
RECURSIVE Advance(_, _)
Advance(comparisons, op) ==
    IF op.left_idx < Len(op.left) /\ op.right_idx < Len(op.right)
    THEN LET left_item  == op.left[op.left_idx + 1]
             right_item == op.right[op.right_idx + 1]
             key == make_comparison_key(left_item, right_item)
         IN IF key \in DOMAIN comparisons
            THEN LET winner == IF comparisons[key] = left_item
                               THEN left_item ELSE right_item
                 IN IF winner = left_item
                    THEN Advance(comparisons,
                           [op EXCEPT !.result = Append(@, winner),
                                      !.left_idx = @ + 1])
                    ELSE Advance(comparisons,
                           [op EXCEPT !.result = Append(@, winner),
                                      !.right_idx = @ + 1])
            ELSE op
    ELSE op

\* Variant of Flush that moves the cursor without copying the remainder.
Flush_DropTail(op) ==
    IF op.left_idx = Len(op.left)
    THEN [op EXCEPT !.right_idx = Len(op.right)]
    ELSE IF op.right_idx = Len(op.right)
    THEN [op EXCEPT !.left_idx = Len(op.left)]
    ELSE op

\* Variant of Flush that appends the remainder of the right side only.
Flush_LeftExhaustedOnly(op) ==
    IF op.left_idx = Len(op.left)
    THEN [op EXCEPT !.result = @ \o SubSeq(op.right, op.right_idx + 1, Len(op.right)),
                    !.right_idx = Len(op.right)]
    ELSE op

\* "Append remaining only if one side is exhausted".
Flush(op) ==
    IF op.left_idx = Len(op.left)
    THEN [op EXCEPT !.result = @ \o SubSeq(op.right, op.right_idx + 1, Len(op.right)),
                    !.right_idx = Len(op.right)]
    ELSE IF op.right_idx = Len(op.right)
    THEN [op EXCEPT !.result = @ \o SubSeq(op.left, op.left_idx + 1, Len(op.left)),
                    !.left_idx = Len(op.left)]
    ELSE op

\* Variant of ProcessOp that does not skip an operation with a source link.
ProcessOp_IgnoreLinks(comparisons, op) ==
    Flush(Advance(comparisons, op))

\* Body of the second pass for one operation.
ProcessOp(comparisons, op) ==
    IF op.left_source # NoSource \/ op.right_source # NoSource
    THEN op
    ELSE Flush(Advance(comparisons, op))

SecondPass(comparisons, stack) ==
    <<>> \o [idx \in 1..Len(stack) |-> ProcessOp(comparisons, stack[idx])]

\* Indices pushed to completed_ops by the second pass.
CompletedOps(stack) ==
    {idx \in 1..Len(stack) :
        /\ stack[idx].left_source = NoSource
        /\ stack[idx].right_source = NoSource
        /\ OpDone(stack[idx])}

\* Variant of process_merges that looks at the first operation of the stack
\* for completion.
process_merges_FirstOp(s) ==
    LET stack1 == FirstPass(s.state.merge_stack, 1)
        stack2 == SecondPass(s.comparisons, stack1)
    IN IF stack2 # <<>> /\ 1 \in CompletedOps(stack2)
       THEN [s EXCEPT !.state = [merge_stack |-> stack2,
                                 sorted |-> stack2[1].result,
                                 completed |-> TRUE]]
       ELSE [s EXCEPT !.state.merge_stack = stack2]

\* Variant of process_merges that extends `sorted` with the last operation's
\* result.
process_merges_ExtendSorted(s) ==
    LET stack1 == FirstPass(s.state.merge_stack, 1)
        stack2 == SecondPass(s.comparisons, stack1)
    IN IF stack2 # <<>> /\ Len(stack2) \in CompletedOps(stack2)
       THEN [s EXCEPT !.state = [merge_stack |-> stack2,
                                 sorted |-> s.state.sorted
                                              \o stack2[Len(stack2)].result,
                                 completed |-> TRUE]]
       ELSE [s EXCEPT !.state.merge_stack = stack2]

process_merges(s) ==
    LET stack1 == FirstPass(s.state.merge_stack, 1)
        stack2 == SecondPass(s.comparisons, stack1)
    IN IF stack2 # <<>> /\ Len(stack2) \in CompletedOps(stack2)
       THEN [s EXCEPT !.state = [merge_stack |-> stack2,
                                 sorted |-> stack2[Len(stack2)].result,
                                 completed |-> TRUE]]
       ELSE [s EXCEPT !.state.merge_stack = stack2]

\* Variant of compare that does not store the answer.
compare_NoStore(s, a, b, winner_id) ==
    [s |-> process_merges(s), ok |-> TRUE]

\* Variant of compare that, for a pair already in the ledger, stores the
\* other item of the pair.
compare_FlipKnown(s, a, b, winner_id) ==
    LET key == get_comparison_key(a, b)
        w == IF key \in DOMAIN s.comparisons
             THEN (IF winner_id = a THEN b ELSE a)
             ELSE winner_id
    IN [s |-> process_merges([s EXCEPT !.comparisons = Insert(@, key, w)]),
        ok |-> TRUE]

\* compare: always Ok(()); the winner is not checked against the pair.
compare(s, a, b, winner_id) ==
    [s |-> process_merges(
              [s EXCEPT !.comparisons =
                  Insert(@, get_comparison_key(a, b), winner_id)]),
     ok |-> TRUE]

is_complete(s) == s.state.completed

\* Variant of finalize without the completion check.
finalize_NoCheck(s) == [s |-> s, ok |-> TRUE, order |-> s.state.sorted]

finalize(s) ==
    IF ~s.state.completed
    THEN [s |-> s, ok |-> FALSE, order |-> <<>>]
    ELSE [s |-> s, ok |-> TRUE, order |-> s.state.sorted]

RECURSIVE ScanOps(_, _)
ScanOps(s, idx) ==
    IF idx > Len(s.state.merge_stack) THEN None
    ELSE LET op == s.state.merge_stack[idx]
         IN IF op.left_idx < Len(op.left) /\ op.right_idx < Len(op.right)
               /\ get_winner(s.comparisons, op.left[op.left_idx + 1],
                             op.right[op.right_idx + 1]) = None
            THEN <<op.left[op.left_idx + 1], op.right[op.right_idx + 1]>>
            ELSE ScanOps(s, idx + 1)

next_comparison(s) == ScanOps(s, 1)

\* serde_json::to_value(&self.state): only the MergeState is written.
serialize_state(s) == s.state

deserialize_state(s, v) == [s EXCEPT !.state = v]

----------------------------------------------------------------------------
(* QuickSortStrategy: the second engine behind the RankStrategy trait *)

\* Id::default(), the empty string that `resize` pads `sorted` with.
DefaultId == 0

PartitionOp(items, start_pos) ==
    [items |-> items,
     pivot_idx |-> Len(items) \div 2,
     less |-> <<>>,
     greater |-> <<>>,
     current_idx |-> 0,
     start_pos |-> start_pos]

initialize_quicksort(s) ==
    [s EXCEPT !.state.partition_stack = Append(@, PartitionOp(s.items, 0))]

QuickSort_new(items) ==
    LET strategy0 == [items |-> items,
                      comparisons |-> EmptyLedger,
                      state |-> [partition_stack |-> <<>>,
                                 sorted |-> <<>>,
                                 completed |-> FALSE]]
    IN IF Len(items) = 0
       THEN [strategy0 EXCEPT !.state.completed = TRUE]
       ELSE IF Len(items) = 1
       THEN [strategy0 EXCEPT !.state.sorted = items,
                              !.state.completed = TRUE]
       ELSE initialize_quicksort(strategy0)

\* The ledger is looked up under the key as given and under the swapped key.
get_comparison(comparisons, a, b) ==
    IF <<a, b>> \in DOMAIN comparisons THEN <<comparisons[<<a, b>>]>>
    ELSE IF <<b, a>> \in DOMAIN comparisons THEN <<comparisons[<<b, a>>]>>
    ELSE None

\* The partition on top of the stack, once every non-pivot item is placed,
\* is popped, written to `sorted` and replaced by its sub-partitions.
process_partition(s) ==
    LET stack == s.state.partition_stack
    IN IF stack = <<>> THEN s
       ELSE
         LET op == stack[Len(stack)]
             count == Cardinality({i \in 0..(Len(op.items) - 1) :
                                      i # op.pivot_idx})
             needs_processing ==
                 \/ op.current_idx >= Len(op.items)
                 \/ Len(op.less) + Len(op.greater) >= count
         IN IF ~needs_processing THEN s
            ELSE
              LET popped == SubSeq(stack, 1, Len(stack) - 1)
                  pivot == op.items[op.pivot_idx + 1]
                  total_size == Len(op.less) + 1 + Len(op.greater)
                  sorted0 == s.state.sorted
                  resized ==
                      IF Len(sorted0) < op.start_pos + total_size
                      THEN sorted0 \o
                           [i \in 1..(op.start_pos + total_size - Len(sorted0))
                              |-> DefaultId]
                      ELSE sorted0
                  pivot_pos == op.start_pos + Len(op.less)
                  placed ==
                      [i \in 1..Len(resized) |->
                          IF i - 1 >= op.start_pos /\ i - 1 < pivot_pos
                          THEN op.less[i - op.start_pos]
                          ELSE IF i - 1 = pivot_pos THEN pivot
                          ELSE IF i - 1 > pivot_pos
                                  /\ i - 1 <= pivot_pos + Len(op.greater)
                          THEN op.greater[i - 1 - pivot_pos]
                          ELSE resized[i]]
                  with_greater ==
                      IF Len(op.greater) > 1
                      THEN Append(popped, PartitionOp(op.greater, pivot_pos + 1))
                      ELSE popped
                  with_less ==
                      IF Len(op.less) > 1
                      THEN Append(with_greater, PartitionOp(op.less, op.start_pos))
                      ELSE with_greater
              IN [s EXCEPT !.state.sorted = placed,
                           !.state.partition_stack = with_less]

\* The loop at the head of compare: items whose outcome against the pivot is
\* already in the ledger are placed without a question.
RECURSIVE SkipCached(_, _)
SkipCached(comparisons, op) ==
    IF op.current_idx >= Len(op.items) THEN op
    ELSE IF op.current_idx = op.pivot_idx
    THEN SkipCached(comparisons, [op EXCEPT !.current_idx = @ + 1])
    ELSE LET current == op.items[op.current_idx + 1]
             pivot == op.items[op.pivot_idx + 1]
             cached_winner == get_comparison(comparisons, current, pivot)
         IN IF cached_winner = None THEN op
            ELSE IF cached_winner = <<current>>
            THEN SkipCached(comparisons,
                            [op EXCEPT !.less = Append(@, current),
                                       !.current_idx = @ + 1])
            ELSE SkipCached(comparisons,
                            [op EXCEPT !.greater = Append(@, current),
                                       !.current_idx = @ + 1])

\* Variant of MarkCompleted that never sets the flag.
MarkCompleted_Never(s) == s

\* `if self.state.partition_stack.is_empty() { self.state.completed = true; }`
MarkCompleted(s) ==
    IF s.state.partition_stack = <<>>
    THEN [s EXCEPT !.state.completed = TRUE]
    ELSE s

\* Variant of compare that places the item at the cursor into `greater` when
\* it is the winner.
QuickSort_compare_WinnerToGreater(s, a, b, winner) ==
    IF s.state.partition_stack = <<>> THEN [s |-> s, ok |-> TRUE]
    ELSE
      LET op_idx == Len(s.state.partition_stack)
          op == SkipCached(s.comparisons, s.state.partition_stack[op_idx])
          s1 == [s EXCEPT !.state.partition_stack[op_idx] = op]
      IN IF op.current_idx >= Len(op.items)
         THEN [s |-> MarkCompleted(process_partition(s1)), ok |-> TRUE]
         ELSE
           LET current == op.items[op.current_idx + 1]
               pivot == op.items[op.pivot_idx + 1]
               placed == IF winner # current
                         THEN [op EXCEPT !.less = Append(@, current)]
                         ELSE [op EXCEPT !.greater = Append(@, current)]
               op2 == [placed EXCEPT !.current_idx = @ + 1]
               s2 == [s1 EXCEPT
                        !.comparisons = Insert(@, <<current, pivot>>, winner),
                        !.state.partition_stack[op_idx] = op2]
           IN IF \/ op2.current_idx >= Len(op2.items)
                 \/ Len(op2.less) + Len(op2.greater) >= Len(op2.items) - 1
              THEN [s |-> MarkCompleted(process_partition(s2)), ok |-> TRUE]
              ELSE [s |-> s2, ok |-> TRUE]

\* Variant of compare that leaves the cursor on the item it has placed.
QuickSort_compare_NoAdvance(s, a, b, winner) ==
    IF s.state.partition_stack = <<>> THEN [s |-> s, ok |-> TRUE]
    ELSE
      LET op_idx == Len(s.state.partition_stack)
          op == SkipCached(s.comparisons, s.state.partition_stack[op_idx])
          s1 == [s EXCEPT !.state.partition_stack[op_idx] = op]
      IN IF op.current_idx >= Len(op.items)
         THEN [s |-> MarkCompleted(process_partition(s1)), ok |-> TRUE]
         ELSE
           LET current == op.items[op.current_idx + 1]
               pivot == op.items[op.pivot_idx + 1]
               placed == IF winner = current
                         THEN [op EXCEPT !.less = Append(@, current)]
                         ELSE [op EXCEPT !.greater = Append(@, current)]
               op2 == placed
               s2 == [s1 EXCEPT
                        !.comparisons = Insert(@, <<current, pivot>>, winner),
                        !.state.partition_stack[op_idx] = op2]
           IN IF \/ op2.current_idx >= Len(op2.items)
                 \/ Len(op2.less) + Len(op2.greater) >= Len(op2.items) - 1
              THEN [s |-> MarkCompleted(process_partition(s2)), ok |-> TRUE]
              ELSE [s |-> s2, ok |-> TRUE]

\* The arguments a and b are not read (`_a`, `_b`): the winner is applied to
\* the item at the cursor of the top partition and its pivot.
QuickSort_compare(s, a, b, winner) ==
    IF s.state.partition_stack = <<>> THEN [s |-> s, ok |-> TRUE]
    ELSE
      LET op_idx == Len(s.state.partition_stack)
          op == SkipCached(s.comparisons, s.state.partition_stack[op_idx])
          s1 == [s EXCEPT !.state.partition_stack[op_idx] = op]
      IN IF op.current_idx >= Len(op.items)
         THEN [s |-> MarkCompleted(process_partition(s1)), ok |-> TRUE]
         ELSE
           LET current == op.items[op.current_idx + 1]
               pivot == op.items[op.pivot_idx + 1]
               placed == IF winner = current
                         THEN [op EXCEPT !.less = Append(@, current)]
                         ELSE [op EXCEPT !.greater = Append(@, current)]
               op2 == [placed EXCEPT !.current_idx = @ + 1]
               s2 == [s1 EXCEPT
                        !.comparisons = Insert(@, <<current, pivot>>, winner),
                        !.state.partition_stack[op_idx] = op2]
           IN IF \/ op2.current_idx >= Len(op2.items)
                 \/ Len(op2.less) + Len(op2.greater) >= Len(op2.items) - 1
              THEN [s |-> MarkCompleted(process_partition(s2)), ok |-> TRUE]
              ELSE [s |-> s2, ok |-> TRUE]

QuickSort_finalize(s) ==
    IF ~s.state.completed
    THEN [s |-> s, ok |-> FALSE, order |-> <<>>]
    ELSE [s |-> s, ok |-> TRUE, order |-> s.state.sorted]

QuickSort_serialize_state(s) == s.state

\* Variant of deserialize_state that leaves the engine as it was.
QuickSort_deserialize_state_Ignore(s, v) == s

QuickSort_deserialize_state(s, v) == [s EXCEPT !.state = v]

RECURSIVE ScanPartition(_, _, _)
ScanPartition(comparisons, op, idx) ==
    IF idx >= Len(op.items) THEN None
    ELSE IF idx = op.pivot_idx THEN ScanPartition(comparisons, op, idx + 1)
    ELSE LET current == op.items[idx + 1]
             pivot == op.items[op.pivot_idx + 1]
         IN IF get_comparison(comparisons, current, pivot) = None
            THEN <<current, pivot>>
            ELSE ScanPartition(comparisons, op, idx + 1)

QuickSort_next_comparison(s) ==
    IF s.state.completed \/ s.state.partition_stack = <<>> THEN None
    ELSE LET op == s.state.partition_stack[Len(s.state.partition_stack)]
         IN ScanPartition(s.comparisons, op, op.current_idx)

QuickSort_is_complete(s) == s.state.completed

----------------------------------------------------------------------------
(* Session journal (Session::add_comparison) *)

\* Variant of add_comparison that journals the first item as the winner.
add_comparison_WinnerA(comparisons, a, b, winner) ==
    Append(comparisons, [a |-> a, b |-> b, winner |-> a])

add_comparison(comparisons, a, b, winner) ==
    Append(comparisons, [a |-> a, b |-> b, winner |-> winner])

----------------------------------------------------------------------------
(* The question/answer loop of perform_ranking, driven over a live engine *)

NoRet == [op |-> "none", ok |-> TRUE, order |-> <<>>]

\* Number of unordered pairs over the engine's items, plus one: the loop is
\* cut there so that a run that kept asking would still be finite.
MaxSteps(s) == (Len(s.items) * (Len(s.items) - 1)) \div 2 + 1

Observe(s) == [next |-> next_comparison(s), complete |-> is_complete(s)]

Init ==
    /\ \E items \in ItemLists : strategy = new(items)
    /\ journal = <<>>
    /\ asked = <<>>
    /\ ret = NoRet
    /\ other = strategy
    /\ trace = <<>>
    /\ pos = 0
    /\ phase = "live"
    /\ NoRankSet

\* One turn of `while let Some((a_id, b_id)) = strategy.next_comparison()`:
\* the user picks 1 or 2, compare is applied and the answer is journaled.
Answer(winner) ==
    LET q == next_comparison(strategy)
    IN /\ phase = "live"
       /\ q # None
       /\ Len(journal) < MaxSteps(strategy)
       /\ winner \in {q[1], q[2]}
       /\ \E r \in {compare(strategy, q[1], q[2], winner)} :
             /\ strategy' = r.s
             /\ ret' = [op |-> "compare", ok |-> r.ok, order |-> <<>>]
       /\ trace' = Append(trace, Observe(strategy'))
       /\ journal' = add_comparison(journal, q[1], q[2], winner)
       /\ asked' = Append(asked, q)
       /\ UNCHANGED <<other, pos, phase, rankset, store, ranking, launches>>

\* strategy.finalize(), callable in any state.
Finalize ==
    /\ phase = "live"
    /\ \E r \in {finalize(strategy)} :
          /\ strategy' = r.s
          /\ ret' = [op |-> "finalize", ok |-> r.ok, order |-> r.order]
    /\ UNCHANGED <<journal, asked, other, trace, pos, phase,
                   rankset, store, ranking, launches>>

Next ==
    \/ \E w \in Ids : Answer(w)
    \/ Finalize

Spec == Init /\ [][Next]_vars

----------------------------------------------------------------------------
(* Replay resume: a fresh engine over the same items is fed the journal *)

\* resume: MergeStrategy::new(item_ids) over the same item list.
StartReplay ==
    /\ phase = "live"
    /\ phase' = "replay"
    /\ other' = new(strategy.items)
    /\ pos' = 0
    /\ UNCHANGED <<strategy, journal, asked, ret, trace,
                   rankset, store, ranking, launches>>

\* One turn of `for comparison in &ranking.session.comparisons`.
ReplayStep ==
    /\ phase = "replay"
    /\ pos < Len(journal)
    /\ LET c == journal[pos + 1]
       IN other' = compare(other, c.a, c.b, c.winner).s
    /\ pos' = pos + 1
    /\ UNCHANGED <<strategy, journal, asked, ret, trace, phase,
                   rankset, store, ranking, launches>>

\* The journal fed a second time to the engine that already replayed it.
ReplayAgain ==
    /\ phase = "replay"
    /\ pos >= Len(journal)
    /\ pos < 2 * Len(journal)
    /\ LET c == journal[pos - Len(journal) + 1]
       IN other' = compare(other, c.a, c.b, c.winner).s
    /\ pos' = pos + 1
    /\ UNCHANGED <<strategy, journal, asked, ret, trace, phase,
                   rankset, store, ranking, launches>>

ReplayNext ==
    \/ \E w \in Ids : Answer(w)
    \/ StartReplay
    \/ ReplayStep

ReplaySpec == Init /\ [][ReplayNext]_vars

ReplayTwiceNext ==
    \/ \E w \in Ids : Answer(w)
    \/ StartReplay
    \/ ReplayStep
    \/ ReplayAgain

ReplayTwiceSpec == Init /\ [][ReplayTwiceNext]_vars

----------------------------------------------------------------------------
(* Snapshot resume: serialize_state, then deserialize_state into a fresh
   engine; afterwards both engines are given the same answers *)

TakeSnapshot ==
    /\ phase = "live"
    /\ phase' = "restored"
    /\ other' = deserialize_state(new(strategy.items), serialize_state(strategy))
    /\ pos' = 0
    /\ UNCHANGED <<strategy, journal, asked, ret, trace,
                   rankset, store, ranking, launches>>

\* The original engine's question is answered and the answer is given to
\* both engines (as long as both ask that question).
AnswerBoth(winner) ==
    LET q == next_comparison(strategy)
    IN /\ phase = "restored"
       /\ q # None
       /\ next_comparison(other) = q
       /\ winner \in {q[1], q[2]}
       /\ strategy' = compare(strategy, q[1], q[2], winner).s
       /\ other' = compare(other, q[1], q[2], winner).s
       /\ journal' = add_comparison(journal, q[1], q[2], winner)
       /\ asked' = Append(asked, q)
       /\ pos' = pos + 1
       /\ UNCHANGED <<ret, trace, phase, rankset, store, ranking, launches>>

SnapshotNext ==
    \/ \E w \in Ids : Answer(w)
    \/ TakeSnapshot
    \/ \E w \in Ids : AnswerBoth(w)

SnapshotSpec == Init /\ [][SnapshotNext]_vars

----------------------------------------------------------------------------
(* A compare call issued a second time during the loop *)

\* Largest number of repeated compare calls in one run.
MaxRepeats == 1

Repeat(i) ==
    /\ phase = "live"
    /\ pos < MaxRepeats
    /\ i \in DOMAIN journal
    /\ \E r \in {compare(strategy, journal[i].a, journal[i].b,
                          journal[i].winner)} :
          /\ strategy' = r.s
          /\ ret' = [op |-> "compare", ok |-> r.ok, order |-> <<>>]
    /\ pos' = pos + 1
    /\ UNCHANGED <<journal, asked, other, trace, phase,
                   rankset, store, ranking, launches>>

RepeatNext ==
    \/ \E w \in Ids : Answer(w)
    \/ \E i \in 1..(MaxItems * MaxItems) : Repeat(i)

RepeatSpec == Init /\ [][RepeatNext]_vars

----------------------------------------------------------------------------
(* compare called with a winner that is neither of the two items *)

\* Largest number of such calls in one run.
MaxInvalid == 1

CompareInvalid(a, b, winner) ==
    /\ phase = "live"
    /\ pos < MaxInvalid
    /\ a \in Range(strategy.items)
    /\ b \in Range(strategy.items)
    /\ a # b
    /\ winner \notin {a, b}
    /\ \E r \in {compare(strategy, a, b, winner)} :
          /\ strategy' = r.s
          /\ ret' = [op |-> "compare_invalid", ok |-> r.ok, order |-> <<>>]
    /\ pos' = pos + 1
    /\ UNCHANGED <<journal, asked, other, trace, phase,
                   rankset, store, ranking, launches>>

InvalidNext ==
    \/ \E w \in Ids : Answer(w)
    \/ \E a, b, w \in Ids : CompareInvalid(a, b, w)

InvalidSpec == Init /\ [][InvalidNext]_vars

----------------------------------------------------------------------------
(* compare called on arbitrary pairs of items, not only the pair asked *)

\* Largest number of items of an engine driven by arbitrary compare calls.
MaxAnyItems == 3

AnyInit ==
    /\ \E items \in ItemLists :
          /\ Range(items) \subseteq 1..MaxAnyItems
          /\ strategy = new(items)
    /\ journal = <<>>
    /\ asked = <<>>
    /\ ret = NoRet
    /\ other = strategy
    /\ trace = <<>>
    /\ pos = 0
    /\ phase = "live"
    /\ NoRankSet

\* compare(a, b, winner) on two distinct items of the item set, the winner
\* being one of them.
CompareAny(a, b, winner) ==
    /\ phase = "live"
    /\ a \in Range(strategy.items)
    /\ b \in Range(strategy.items)
    /\ a # b
    /\ winner \in {a, b}
    /\ \E r \in {compare(strategy, a, b, winner)} :
          /\ strategy' = r.s
          /\ ret' = [op |-> "compare_any", ok |-> r.ok, order |-> <<>>]
    /\ UNCHANGED <<journal, asked, other, trace, pos, phase,
                   rankset, store, ranking, launches>>

AnyNext == \E a, b \in Ids : \E w \in {a, b} : CompareAny(a, b, w)

AnySpec == AnyInit /\ [][AnyNext]_vars

----------------------------------------------------------------------------
(* The question/answer loop over a QuickSortStrategy, and over either engine *)

QuickInit ==
    /\ \E items \in ItemLists : strategy = QuickSort_new(items)
    /\ journal = <<>>
    /\ asked = <<>>
    /\ ret = NoRet
    /\ other = strategy
    /\ trace = <<>>
    /\ pos = 0
    /\ phase = "quick"
    /\ NoRankSet

\* One turn of `while let Some((a, b)) = strategy.next_comparison()` over a
\* QuickSortStrategy: compare is called on the pair asked.
QuickAnswer(winner) ==
    LET q == QuickSort_next_comparison(strategy)
    IN /\ phase = "quick"
       /\ q # None
       /\ Len(journal) < MaxSteps(strategy)
       /\ winner \in {q[1], q[2]}
       /\ \E r \in {QuickSort_compare(strategy, q[1], q[2], winner)} :
             /\ strategy' = r.s
             /\ ret' = [op |-> "compare", ok |-> r.ok, order |-> <<>>]
       /\ trace' = Append(trace,
                          [next |-> QuickSort_next_comparison(strategy'),
                           complete |-> QuickSort_is_complete(strategy')])
       /\ journal' = add_comparison(journal, q[1], q[2], winner)
       /\ asked' = Append(asked, q)
       /\ UNCHANGED <<other, pos, phase, rankset, store, ranking, launches>>

QuickFinalize ==
    /\ phase = "quick"
    /\ \E r \in {QuickSort_finalize(strategy)} :
          /\ strategy' = r.s
          /\ ret' = [op |-> "finalize", ok |-> r.ok, order |-> r.order]
    /\ UNCHANGED <<journal, asked, other, trace, pos, phase,
                   rankset, store, ranking, launches>>

QuickNext ==
    \/ \E w \in Ids : QuickAnswer(w)
    \/ QuickFinalize

QuickSpec == QuickInit /\ [][QuickNext]_vars

\* Either engine behind the RankStrategy trait.
EngineInit == Init \/ QuickInit

EngineNext ==
    \/ \E w \in Ids : Answer(w)
    \/ Finalize
    \/ \E w \in Ids : QuickAnswer(w)
    \/ QuickFinalize

EngineSpec == EngineInit /\ [][EngineNext]_vars

\* Calls through the trait reach the implementation of the engine at hand.
dyn_is_complete(s) ==
    IF phase = "quick" THEN QuickSort_is_complete(s) ELSE is_complete(s)

dyn_next_comparison(s) ==
    IF phase = "quick" THEN QuickSort_next_comparison(s) ELSE next_comparison(s)

dyn_finalize(s) ==
    IF phase = "quick" THEN QuickSort_finalize(s) ELSE finalize(s)

----------------------------------------------------------------------------
(* deserialize_state given the snapshot of another engine *)

\* serde_json::from_value::<MergeState>: succeeds when the value has the
\* fields of a MergeState; the items named inside are not looked at.
from_value_MergeState(v) ==
    {"merge_stack", "sorted", "completed"} \subseteq DOMAIN v

\* serde_json::from_value::<QuickSortState>
from_value_QuickSortState(v) ==
    {"partition_stack", "sorted", "completed"} \subseteq DOMAIN v

\* deserialize_state with its Result: `?` returns the serde error before the
\* assignment, otherwise the state is replaced and Ok(()) returned.
try_deserialize_state(s, v) ==
    IF from_value_MergeState(v)
    THEN [s |-> deserialize_state(s, v), ok |-> TRUE]
    ELSE [s |-> s, ok |-> FALSE]

QuickSort_try_deserialize_state(s, v) ==
    IF from_value_QuickSortState(v)
    THEN [s |-> QuickSort_deserialize_state(s, v), ok |-> TRUE]
    ELSE [s |-> s, ok |-> FALSE]

ForeignInit ==
    /\ EngineInit
    /\ Range(strategy.items) \subseteq 1..MaxAnyItems

\* The engine is handed the snapshot of an engine built over another item
\* set, of its own kind (quick = FALSE, TRUE resp.) or of the other kind.
DeserializeForeign(items2, quick) ==
    /\ phase \in {"live", "quick"}
    /\ items2 \in ItemLists
    /\ Range(items2) \subseteq 1..MaxAnyItems
    /\ Range(items2) # Range(strategy.items)
    /\ LET snapshot == IF quick
                       THEN QuickSort_serialize_state(QuickSort_new(items2))
                       ELSE serialize_state(new(items2))
           r == IF phase = "quick"
                THEN QuickSort_try_deserialize_state(strategy, snapshot)
                ELSE try_deserialize_state(strategy, snapshot)
       IN /\ strategy' = r.s
          /\ ret' = [op |-> "deserialize", ok |-> r.ok, order |-> items2]
    /\ other' = strategy
    /\ phase' = IF phase = "quick" THEN "quick_restored" ELSE "restored"
    /\ UNCHANGED <<journal, asked, trace, pos,
                   rankset, store, ranking, launches>>

ForeignNext ==
    \/ \E w \in Ids : Answer(w)
    \/ \E w \in Ids : QuickAnswer(w)
    \/ \E items2 \in ItemLists, quick \in BOOLEAN :
          DeserializeForeign(items2, quick)

ForeignSpec == ForeignInit /\ [][ForeignNext]_vars

----------------------------------------------------------------------------
(* Claims about the question/answer loop *)

\* Every journaled answer names the item the order p prefers.
Consistent(p, j) ==
    \A i \in DOMAIN j : j[i].winner = Preferred(p, j[i].a, j[i].b)

UnorderedPair(q) == {q[1], q[2]}

\* C1: for every item list and every strict total preference order, when all
\* answers of the loop named the preferred item and the engine is complete,
\* finalize returns the items in preference order, best first.
C1_SortsByPreference ==
    is_complete(strategy) =>
        \A p \in Orders(strategy.items) :
            Consistent(p, journal)
                => /\ finalize(strategy).ok
                   /\ finalize(strategy).order = p

C1_Witness ==
    /\ is_complete(strategy)
    /\ Len(strategy.items) >= 3
    /\ strategy.state.sorted # strategy.items
    /\ \E p \in Orders(strategy.items) : Consistent(p, journal)

\* Number of unordered pairs over the engine's items.
NumPairs(s) == (Len(s.items) * (Len(s.items) - 1)) \div 2

\* C2: the loop terminates, having asked at most one question per unordered
\* pair of items (every turn of the loop is one question, so the run is no
\* longer than the number of pairs), and whenever next_comparison returns
\* None the engine is complete.
C2_LoopEndsComplete ==
    /\ Len(asked) <= NumPairs(strategy)
    /\ (next_comparison(strategy) = None => is_complete(strategy))

C2_Witness ==
    /\ next_comparison(strategy) = None
    /\ is_complete(strategy)
    /\ Len(journal) >= 3

\* C3: no unordered pair is returned by next_comparison twice in a run.
C3_NoRepeatedQuestion ==
    \A i, j \in DOMAIN asked :
        i # j => UnorderedPair(asked[i]) # UnorderedPair(asked[j])

C3_Witness ==
    /\ Len(asked) >= 4
    /\ is_complete(strategy)

\* C10: finalize returns an order exactly when is_complete() is true, the
\* order being the engine's sorted list, and it leaves the engine unchanged.
C10_FinalizeIffComplete ==
    [][ret'.op = "finalize" =>
         /\ ret'.ok = is_complete(strategy)
         /\ (ret'.ok => ret'.order = strategy.state.sorted)
         /\ strategy' = strategy]_vars

C10_Witness ==
    /\ ret.op = "finalize"
    /\ ~ret.ok
    /\ journal # <<>>
    /\ ~is_complete(strategy)

----------------------------------------------------------------------------
(* Claims about replay *)

RECURSIVE ReplayFrom(_, _, _)
ReplayFrom(s, j, i) ==
    IF i > Len(j) THEN s
    ELSE ReplayFrom(compare(s, j[i].a, j[i].b, j[i].winner).s, j, i + 1)

\* C7: feeding the journal a second time to the engine that replayed it
\* leaves the engine as it was after the first pass.
C7_ReplayIdempotent ==
    (phase = "replay" /\ pos = 2 * Len(journal))
        => /\ other = ReplayFrom(new(strategy.items), journal, 1)
           /\ next_comparison(other) =
                next_comparison(ReplayFrom(new(strategy.items), journal, 1))

----------------------------------------------------------------------------
(* Claims about snapshots *)

\* C5: an engine restored from a snapshot, given the same answers as the
\* original, asks the same question at every step, is complete when the
\* original is, and gives the same finalize order.
C5_SnapshotResume ==
    phase = "restored"
        => /\ next_comparison(other) = next_comparison(strategy)
           /\ is_complete(other) = is_complete(strategy)
           /\ finalize(other).order = finalize(strategy).order

\* C6: right after deserialize_state the restored engine's ledger holds the
\* same entries as the engine that was serialized.
C6_SnapshotHasLedger ==
    (phase = "restored" /\ pos = 0)
        => other.comparisons = strategy.comparisons

----------------------------------------------------------------------------
(* Claims about repeated and invalid compare calls *)

\* The plain loop run to its end under the preference order p.
RECURSIVE RunLoop(_, _, _)
RunLoop(s, p, fuel) ==
    LET q == next_comparison(s)
    IN IF q = None \/ fuel = 0 THEN s
       ELSE RunLoop(compare(s, q[1], q[2], Preferred(p, q[1], q[2])).s,
                    p, fuel - 1)

\* C8: under a consistent preference, a completed run in which a compare
\* call was issued a second time has the finalize order of the run without
\* the repeated call.
C8_RepeatKeepsOrder ==
    (is_complete(strategy) /\ pos > 0) =>
        \A p \in Orders(strategy.items) :
            Consistent(p, journal) =>
                finalize(strategy).order =
                    finalize(RunLoop(new(strategy.items), p,
                                     MaxSteps(strategy))).order

C8_Witness ==
    /\ is_complete(strategy)
    /\ pos > 0
    /\ Len(strategy.items) >= 3
    /\ strategy.state.sorted # strategy.items
    /\ \E p \in Orders(strategy.items) : Consistent(p, journal)

\* C9: compare with a winner that is neither of the two items returns an
\* error and changes nothing in the engine.
C9_InvalidWinnerRejected ==
    [][ret'.op = "compare_invalid" =>
         /\ ~ret'.ok
         /\ strategy' = strategy]_vars

----------------------------------------------------------------------------
(* Claims about which question is asked *)

\* Index of the operation next_comparison takes its pair from (0 if none).
RECURSIVE ScanIdx(_, _)
ScanIdx(s, idx) ==
    IF idx > Len(s.state.merge_stack) THEN 0
    ELSE LET op == s.state.merge_stack[idx]
         IN IF op.left_idx < Len(op.left) /\ op.right_idx < Len(op.right)
               /\ get_winner(s.comparisons, op.left[op.left_idx + 1],
                             op.right[op.right_idx + 1]) = None
            THEN idx
            ELSE ScanIdx(s, idx + 1)

\* C11: over at least 2 items, after any sequence of compare calls on pairs
\* of distinct items, an engine that is not complete has a next question.
C11_IncompleteHasQuestion ==
    (Len(strategy.items) >= 2 /\ ~is_complete(strategy))
        => next_comparison(strategy) # None

\* C12: the pair returned by next_comparison is read from an operation that
\* has no remaining source link, so both its inputs are final.
C12_QuestionFromFinalInputs ==
    next_comparison(strategy) # None =>
        LET op == strategy.state.merge_stack[ScanIdx(strategy, 1)]
        IN op.left_source = NoSource /\ op.right_source = NoSource

\* C13: under a consistent preference the loop asks at most 3 questions for
\* 3 items and at most 5 questions for 4 items.
C13_MergeSortBound ==
    (\E p \in Orders(strategy.items) : Consistent(p, journal)) =>
        /\ (Len(strategy.items) = 3 => Len(asked) <= 3)
        /\ (Len(strategy.items) = 4 => Len(asked) <= 5)

----------------------------------------------------------------------------
(* Boundary cases *)

\* C14: an engine over 0 or 1 items is complete from construction: it has no
\* question, no compare call is made, and finalize returns the item list
\* itself (empty, or the single item).
C14_TrivialListsComplete ==
    Len(strategy.items) <= 1 =>
        /\ dyn_is_complete(strategy)
        /\ dyn_next_comparison(strategy) = None
        /\ journal = <<>>
        /\ dyn_finalize(strategy).ok
        /\ dyn_finalize(strategy).order = strategy.items
        /\ (ret.op = "finalize" => ret.ok /\ ret.order = strategy.items)

C14_Witness ==
    /\ Len(strategy.items) = 1
    /\ phase = "quick"
    /\ ret.op = "finalize"
    /\ ret.ok
    /\ ret.order = strategy.items

\* C15: an engine over 2 items is incomplete at construction and asks about
\* the two items; after the single answer it is complete, asks nothing more,
\* and finalize returns the declared winner first and the other item second.
C15_TwoItems ==
    Len(strategy.items) = 2 =>
        /\ (journal = <<>> =>
              /\ ~dyn_is_complete(strategy)
              /\ dyn_next_comparison(strategy) # None
              /\ UnorderedPair(dyn_next_comparison(strategy))
                    = Range(strategy.items))
        /\ (journal # <<>> =>
              /\ Len(journal) = 1
              /\ dyn_is_complete(strategy)
              /\ dyn_next_comparison(strategy) = None
              /\ dyn_finalize(strategy).ok
              /\ Len(dyn_finalize(strategy).order) = 2
              /\ dyn_finalize(strategy).order[1] = journal[1].winner
              /\ dyn_finalize(strategy).order[2] \in
                    Range(strategy.items) \ {journal[1].winner})

C15_Witness ==
    /\ Len(strategy.items) = 2
    /\ phase = "quick"
    /\ Len(journal) = 1
    /\ journal[1].winner = strategy.items[1]
    /\ ret.op = "finalize"
    /\ ret.ok
    /\ ret.order = <<strategy.items[1], strategy.items[2]>>

----------------------------------------------------------------------------
(* Claims about the ledger and the merge operations under arbitrary calls *)

\* C16: a compare call never changes the winner already recorded for a pair.
C16_LedgerEntriesImmutable ==
    [][\A k \in DOMAIN strategy.comparisons :
          /\ k \in DOMAIN strategy'.comparisons
          /\ strategy'.comparisons[k] = strategy.comparisons[k]]_vars

\* C17: from every state, compare(a, b, w) and compare(b, a, w) give the same
\* engine, and after either call the pair counts as answered in both
\* argument orders.
C17_KeyOrderIndependent ==
    \A a, b \in Range(strategy.items) :
        a < b =>
            \A w \in {a, b} :
                \A s1 \in {compare(strategy, a, b, w).s},
                   s2 \in {compare(strategy, b, a, w).s} :
                   /\ s1 = s2
                   /\ get_winner(s1.comparisons, b, a) = <<w>>
                   /\ get_winner(s2.comparisons, a, b) = <<w>>

C17_Witness ==
    /\ ret.op = "compare_any"
    /\ Len(strategy.items) >= 3
    /\ Cardinality(DOMAIN strategy.comparisons) >= 2
    /\ ~is_complete(strategy)

\* C18: over at least 2 items, the engine is complete exactly when the last
\* operation of the stack has both cursors at the end of its inputs, and the
\* final order is then that operation's output.
C18_CompleteIffRootDone ==
    Len(strategy.items) >= 2 =>
        LET root == strategy.state.merge_stack[Len(strategy.state.merge_stack)]
        IN /\ is_complete(strategy) <=> OpDone(root)
           /\ is_complete(strategy) => strategy.state.sorted = root.result

C18_Witness ==
    /\ ret.op = "compare_any"
    /\ Len(strategy.items) >= 3
    /\ is_complete(strategy)
    /\ strategy.state.sorted # strategy.items

\* x and y hold the same items, each as often in x as in y.
SameItems(x, y) ==
    \A v \in Range(x) \cup Range(y) :
        Cardinality({i \in DOMAIN x : x[i] = v})
            = Cardinality({i \in DOMAIN y : y[i] = v})

\* C19: in every operation the output together with the unconsumed parts of
\* both inputs holds exactly the items of the two inputs, each once; a
\* complete engine's final order holds every item exactly once.
C19_ItemsConserved ==
    /\ \A idx \in DOMAIN strategy.state.merge_stack :
          LET op == strategy.state.merge_stack[idx]
          IN /\ op.left_idx <= Len(op.left)
             /\ op.right_idx <= Len(op.right)
             /\ SameItems(op.result
                            \o SubSeq(op.left, op.left_idx + 1, Len(op.left))
                            \o SubSeq(op.right, op.right_idx + 1, Len(op.right)),
                          op.left \o op.right)
             /\ IsDistinct(op.left \o op.right)
    /\ is_complete(strategy) =>
          /\ SameItems(finalize(strategy).order, strategy.items)
          /\ IsDistinct(finalize(strategy).order)

C19_Witness ==
    /\ ret.op = "compare_any"
    /\ \E idx \in DOMAIN strategy.state.merge_stack :
          LET op == strategy.state.merge_stack[idx]
          IN /\ op.result # <<>>
             /\ op.left_idx < Len(op.left)
             /\ op.right_idx < Len(op.right)

----------------------------------------------------------------------------
(* Claims about restoring a snapshot *)

\* C20: deserialize_state given the snapshot of an engine built over another
\* item set returns an error and leaves the engine as it was.
C20_ForeignSnapshotRejected ==
    [][ret'.op = "deserialize" => (~ret'.ok /\ strategy' = strategy)]_vars

----------------------------------------------------------------------------
(* The CLI: `rank start`, the prompt of perform_ranking, `sessions resume`,
   and the rankset file the sessions are saved to *)

\* Largest number of items in the loaded rankset.
MaxCliItems == 3

\* Largest number of sessions started over one rankset.
MaxSessions == 1

\* Largest number of times the program is ended and started again.
MaxRestarts == 1

\* Largest number of answers given at the prompt in one run.
MaxAnswers == 4

\* Utc::now(): that the clock was read, not the reading.
Utc_now == "now"

\* Session ids are random strings; here two characters, the first of which
\* all ids share, so that a one-character argument is a prefix of every id.
SessionIds == {<<1, c>> : c \in 1..(MaxSessions + 1)}

\* What the user may type after `sessions resume`: an id or a prefix of one.
SessionArgs == SessionIds \cup {<<1>>}

\* str::starts_with
starts_with(id_str, prefix) ==
    /\ Len(prefix) <= Len(id_str)
    /\ SubSeq(id_str, 1, Len(prefix)) = prefix

\* Ranking::new with Session::new / SessionInfo::new inside.
\* SessionInfo::new inside Session::new inside Ranking::new, as one record;
\* `now` is the value of Utc::now().
SessionInfo_new(id, now) ==
    [id |-> id,
     created |-> now,
     last_updated |-> now,
     status |-> "in_progress",
     completed |-> None,
     comparisons |-> <<>>,
     result |-> None]

Ranking_new(id) == SessionInfo_new(id, Utc_now)

\* SessionInfo::touch
touch(r, now) == [r EXCEPT !.last_updated = now]

\* Session::add_comparison on the record of a session.
Session_add_comparison(r, a, b, winner, now) ==
    touch([r EXCEPT !.comparisons = add_comparison(@, a, b, winner)], now)

\* Variant of complete that sets the timestamp and leaves the status.
complete_KeepStatus(r, now) ==
    [r EXCEPT !.completed = <<now>>, !.last_updated = now]

\* Variant of complete that sets the status and leaves the timestamp.
complete_NoTimestamp(r, now) ==
    [r EXCEPT !.last_updated = now, !.status = "completed"]

\* SessionInfo::complete
complete(r, now) ==
    [r EXCEPT !.completed = <<now>>,
              !.last_updated = now,
              !.status = "completed"]

\* `rankset.rankings.retain(|r| r.session.info.id != session_id)`
retain(rankings, session_id) ==
    SelectSeq(rankings, LAMBDA r : r.id # session_id)

\* Variant of push_session that keeps the records of the same session.
push_session_NoRetain(rs, r) ==
    [rs EXCEPT !.rankings = Append(@, r)]

\* retain followed by `rankset.rankings.push(ranking.clone())`
push_session(rs, r) ==
    [rs EXCEPT !.rankings = Append(retain(@, r.id), r)]

\* Variant of save_to that writes the items and leaves the rankings out.
save_to_NoRankings(rs) ==
    [items |-> Range(rs.items), rankings |-> <<>>]

\* RankSet::save / save_to: the rankset as JSON.  `items` is a map, written
\* as an object keyed by item id; `rankings` is an array.
save_to(rs) ==
    [items |-> Range(rs.items), rankings |-> rs.rankings]

\* RankSet::load: `items` is read into a new HashMap, whose iteration order
\* (what `rankset.items.keys()` yields) is any order of its keys.
load(file) ==
    {[items |-> order, rankings |-> file.rankings] :
        order \in {o \in ItemLists : Range(o) = file.items /\ Len(o) = Cardinality(file.items)}}

\* RankSet::get_item by id.
get_item(rs, id) == id \in Range(rs.items)

\* `id_str == session_id || id_str.starts_with(&session_id)`
id_matches(id_str, session_id) ==
    id_str = session_id \/ starts_with(id_str, session_id)

\* Variant of position_in_progress that does not look at the status.
RECURSIVE position_AnyStatus(_, _, _)
position_AnyStatus(rankings, session_id, i) ==
    IF i > Len(rankings) THEN 0
    ELSE IF id_matches(rankings[i].id, session_id)
    THEN i
    ELSE position_AnyStatus(rankings, session_id, i + 1)

\* `rankset.rankings.iter().position(..)` of resume: the first in-progress
\* session whose id is, or starts with, the argument; 0 if there is none.
RECURSIVE position_in_progress(_, _, _)
position_in_progress(rankings, session_id, i) ==
    IF i > Len(rankings) THEN 0
    ELSE IF /\ id_matches(rankings[i].id, session_id)
            /\ rankings[i].status = "in_progress"
    THEN i
    ELSE position_in_progress(rankings, session_id, i + 1)

\* `rankset.rankings.remove(ranking_idx)`
remove(rankings, idx) ==
    SubSeq(rankings, 1, idx - 1) \o SubSeq(rankings, idx + 1, Len(rankings))

\* The replay loop of resume: get_item on both ids, then compare; the first
\* error ends it.
RECURSIVE replay(_, _, _, _)
replay(s, rs, comparisons, i) ==
    IF i > Len(comparisons) THEN [s |-> s, ok |-> TRUE]
    ELSE LET c == comparisons[i]
         IN IF ~get_item(rs, c.a) \/ ~get_item(rs, c.b)
            THEN [s |-> s, ok |-> FALSE]
            ELSE LET r == compare(s, c.a, c.b, c.winner)
                 IN IF ~r.ok THEN [s |-> r.s, ok |-> FALSE]
                    ELSE replay(r.s, rs, comparisons, i + 1)

\* The compare calls a journal stands for.
Calls(comparisons) ==
    [i \in 1..Len(comparisons) |->
        [a |-> comparisons[i].a, b |-> comparisons[i].b,
         winner |-> comparisons[i].winner]]

\* Ids of the sessions that exist in memory or in the file.
UsedSessionIds ==
    {rankset.rankings[i].id : i \in DOMAIN rankset.rankings}
        \cup {store.rankings[i].id : i \in DOMAIN store.rankings}
        \cup (IF ranking = None THEN {} ELSE {ranking.id})

CliRet(op, ok, id, done, order) ==
    [op |-> op, ok |-> ok, id |-> id, done |-> done, order |-> order]

\* The question a suspended session was about to ask.
Suspended(r, s) == [id |-> r.id, next |-> next_comparison(s)]

\* A session that a rankset file may hold with status "abandoned"; no
\* command sets that status.
AbandonedRanking ==
    [Ranking_new(<<1, 1>>) EXCEPT !.status = "abandoned"]

\* `load`, or `init` and `items add`, and `users select` have run: a rankset
\* with its items is loaded and saved; it holds no session, or one abandoned
\* session.
CliInit ==
    /\ \E items \in ItemLists, rankings \in {<<>>, <<AbandonedRanking>>} :
          /\ Range(items) = 1..Len(items)
          /\ Len(items) <= MaxCliItems
          /\ rankset = [items |-> items, rankings |-> rankings]
    /\ store = save_to(rankset)
    /\ ranking = None
    /\ strategy = None
    /\ journal = <<>>
    /\ asked = <<>>
    /\ ret = CliRet("none", TRUE, <<>>, FALSE, <<>>)
    /\ other = None
    /\ trace = <<>>
    /\ pos = 0
    /\ launches = 0
    /\ phase = "idle"

\* perform_ranking from the head of its loop: with a question at hand the
\* user is prompted; with none, finalize is called and, if it succeeds, the
\* ranking is completed, its journal cleared, and the rankset saved.
\* `calls` are the compare calls the engine s has been given.
perform_ranking(s, r, rs, file, op, calls) ==
    IF next_comparison(s) # None
    THEN /\ strategy' = s
         /\ ranking' = r
         /\ rankset' = rs
         /\ store' = file
         /\ phase' = "prompt"
         /\ trace' = calls
         /\ ret' = CliRet("prompt", TRUE, r.id, FALSE, <<>>)
    ELSE \E f \in {finalize(s)} :
         IF ~f.ok
         THEN /\ strategy' = None
              /\ ranking' = None
              /\ rankset' = rs
              /\ store' = file
              /\ phase' = "idle"
              /\ trace' = <<>>
              /\ ret' = CliRet(op, FALSE, r.id, FALSE, <<>>)
         ELSE LET finished == [complete([r EXCEPT !.result = <<f.order>>],
                                        Utc_now)
                                 EXCEPT !.comparisons = <<>>]
                  rs2 == push_session(rs, finished)
              IN /\ strategy' = None
                 /\ ranking' = None
                 /\ rankset' = rs2
                 /\ store' = save_to(rs2)
                 /\ phase' = "idle"
                 /\ trace' = <<>>
                 /\ ret' = CliRet(op, TRUE, r.id, TRUE, f.order)

\* `rank start`
Start ==
    /\ phase = "idle"
    /\ Cardinality(UsedSessionIds) < MaxSessions
    /\ IF Len(rankset.items) <= 1
       THEN /\ ret' = CliRet("start", FALSE, <<>>, FALSE, <<>>)
            /\ UNCHANGED <<strategy, ranking, rankset, store, phase, trace>>
       ELSE \E id \in SessionIds \ UsedSessionIds :
               perform_ranking(new(rankset.items), Ranking_new(id),
                               rankset, store, "start", <<>>)
    /\ UNCHANGED <<journal, asked, other, pos, launches>>

\* The user answers 1 or 2 at the prompt: compare, add_comparison, save,
\* and on to the next question or the end.
AnswerPrompt(choice) ==
    /\ phase = "prompt"
    /\ pos < MaxAnswers
    /\ pos' = pos + 1
    /\ LET q == next_comparison(strategy)
           winner == q[choice]
       IN \E r \in {compare(strategy, q[1], q[2], winner)} :
             IF ~r.ok
             THEN /\ strategy' = None
                  /\ ranking' = None
                  /\ phase' = "idle"
                  /\ trace' = <<>>
                  /\ ret' = CliRet("answer", FALSE, ranking.id, FALSE, <<>>)
                  /\ UNCHANGED <<rankset, store>>
             ELSE LET r2 == Session_add_comparison(ranking, q[1], q[2],
                                                   winner, Utc_now)
                      rs2 == push_session(rankset, r2)
                  IN perform_ranking(r.s, r2, rs2, save_to(rs2), "answer",
                                     Append(trace, [a |-> q[1], b |-> q[2],
                                                    winner |-> winner]))
    /\ UNCHANGED <<journal, asked, other, launches>>

\* The user answers q at the prompt: the session is saved and left.
Quit ==
    /\ phase = "prompt"
    /\ LET rs2 == push_session(rankset, ranking)
       IN /\ rankset' = rs2
          /\ store' = save_to(rs2)
    /\ other' = Suspended(ranking, strategy)
    /\ strategy' = None
    /\ ranking' = None
    /\ phase' = "idle"
    /\ ret' = CliRet("quit", TRUE, ranking.id, FALSE, <<>>)
    /\ trace' = <<>>
    /\ UNCHANGED <<journal, asked, pos, launches>>

\* `sessions resume <session_id>`
Resume(session_id) ==
    /\ phase = "idle"
    /\ LET idx == position_in_progress(rankset.rankings, session_id, 1)
       IN IF idx = 0
          THEN /\ ret' = CliRet("resume", FALSE, <<>>, FALSE, <<>>)
               /\ UNCHANGED <<strategy, ranking, rankset, store, phase,
                              trace>>
          ELSE LET r == rankset.rankings[idx]
                   rs2 == [rankset EXCEPT !.rankings = remove(@, idx)]
               IN \E rep \in {replay(new(rankset.items), rs2,
                                     r.comparisons, 1)} :
                     IF ~rep.ok
                     THEN /\ strategy' = None
                          /\ ranking' = None
                          /\ rankset' = rs2
                          /\ phase' = "idle"
                          /\ ret' = CliRet("resume", FALSE, r.id, FALSE,
                                           <<>>)
                          /\ UNCHANGED <<store, trace>>
                     ELSE perform_ranking(rep.s, r, rs2, store, "resume",
                                          Calls(r.comparisons))
    /\ UNCHANGED <<journal, asked, other, pos, launches>>

\* The process is ended without the save of `exit` (killed at the REPL or at
\* a prompt) and is started again with `load` of the saved file.
Restart ==
    /\ phase \in {"idle", "prompt"}
    /\ launches < MaxRestarts
    /\ launches' = launches + 1
    /\ rankset' \in load(store)
    /\ other' = IF phase = "prompt"
                THEN Suspended(ranking, strategy)
                ELSE other
    /\ strategy' = None
    /\ ranking' = None
    /\ phase' = "idle"
    /\ ret' = CliRet("load", TRUE, <<>>, FALSE, <<>>)
    /\ trace' = <<>>
    /\ UNCHANGED <<store, journal, asked, pos>>

CliNext ==
    \/ Start
    \/ \E choice \in 1..2 : AnswerPrompt(choice)
    \/ Quit
    \/ \E session_id \in SessionArgs : Resume(session_id)

CliSpec == CliInit /\ [][CliNext]_vars

\* The same commands, with the program ended and started again in between.
RestartNext ==
    \/ Start
    \/ \E choice \in 1..2 : AnswerPrompt(choice)
    \/ Quit
    \/ \E session_id \in SessionArgs : Resume(session_id)
    \/ Restart

RestartSpec == CliInit /\ [][RestartNext]_vars

----------------------------------------------------------------------------
(* Claims about sessions in the CLI *)

\* The record of session id in a list of rankings, if it is there.
SessionRecords(rankings, id) ==
    {rankings[i] : i \in {j \in DOMAIN rankings : rankings[j].id = id}}

\* C21: when a command ends with the engine complete and finalize
\* successful, the saved ranking of that session has status completed, a
\* completion timestamp, the finalize order as result and an empty journal;
\* while the user is prompted, the session in hand and its saved record have
\* status in_progress, no timestamp and no result.
C21_CompletionTransition ==
    [][/\ ret'.done =>
             /\ phase' = "idle"
             /\ store' = save_to(rankset')
             /\ SessionRecords(store'.rankings, ret'.id) # {}
             /\ \A r \in SessionRecords(store'.rankings, ret'.id) :
                   /\ r.status = "completed"
                   /\ r.completed # None
                   /\ r.result = <<ret'.order>>
                   /\ r.comparisons = <<>>
       /\ phase' = "prompt" =>
             \A r \in {ranking'} \cup SessionRecords(store'.rankings,
                                                     ranking'.id) :
                   /\ r.status = "in_progress"
                   /\ r.completed = None
                   /\ r.result = None]_vars

C21_Witness ==
    /\ ret.done
    /\ ret.op = "answer"
    /\ Len(ret.order) = 3
    /\ \E r \in SessionRecords(store.rankings, ret.id) :
          r.status = "completed" /\ r.result = <<ret.order>>

\* C22: resume takes a session only if it is in progress; given an id or
\* prefix that matches sessions none of which is in progress, it returns an
\* error, builds no engine, calls no compare and leaves the rankings as they
\* were.
C22_CompletedNeverReplayed ==
    [][\A arg \in SessionArgs :
          Resume(arg) =>
             LET matching == {i \in DOMAIN rankset.rankings :
                                 id_matches(rankset.rankings[i].id, arg)}
                 in_progress == {i \in matching :
                                   rankset.rankings[i].status = "in_progress"}
             IN /\ phase' = "prompt" =>
                      \E i \in in_progress : rankset.rankings[i] = ranking'
                /\ ret'.done =>
                      \E i \in in_progress : rankset.rankings[i].id = ret'.id
                /\ (matching # {} /\ in_progress = {}) =>
                      /\ ~ret'.ok
                      /\ strategy' = None
                      /\ trace' = <<>>
                      /\ ranking' = None
                      /\ rankset' = rankset
                      /\ store' = store]_vars

C22_Witness ==
    /\ ret.op = "resume"
    /\ ~ret.ok
    /\ Len(rankset.rankings) = 1
    /\ rankset.rankings[1].status = "completed"
    /\ Len(rankset.rankings[1].result[1]) = 3

\* C23: when a suspended session is resumed, the first question of the
\* resumed run is about the two items the suspended engine was about to ask
\* about.
C23_ResumeAsksSuspendedQuestion ==
    [][((\E arg \in SessionArgs : Resume(arg))
          /\ phase' = "prompt"
          /\ other # None
          /\ other.id = ranking'.id)
        => LET q == next_comparison(strategy')
           IN {q[1], q[2]} = {other.next[1], other.next[2]}]_vars

\* C24: when an answer leads to the next prompt, and when the user quits,
\* the session saved in the file is in progress and its journal is, in
\* order, the compare calls the engine has been given, replayed ones
\* included.
C24_ProgressSavedBeforePrompt ==
    [][/\ (phase = "prompt" /\ phase' = "prompt" /\ trace' # trace) =>
             /\ Len(trace') = Len(trace) + 1
             /\ SessionRecords(store'.rankings, ranking'.id) # {}
             /\ \A r \in SessionRecords(store'.rankings, ranking'.id) :
                   /\ r.status = "in_progress"
                   /\ Calls(r.comparisons) = trace'
       /\ (phase = "prompt" /\ ret'.op = "quit") =>
             /\ SessionRecords(store'.rankings, ranking.id) # {}
             /\ \A r \in SessionRecords(store'.rankings, ranking.id) :
                   /\ r.status = "in_progress"
                   /\ Calls(r.comparisons) = trace]_vars

C24_Witness ==
    /\ phase = "prompt"
    /\ Len(trace) = 2
    /\ other # None
    /\ other.id = ranking.id
    /\ \E r \in SessionRecords(store.rankings, ranking.id) :
          Calls(r.comparisons) = trace

----------------------------------------------------------------------------
(* Claims about QuickSortStrategy *)

\* The two items of a question, without their orientation.
PairSet(q) == {q[1], q[2]}

\* C25: in the question/answer loop over a QuickSortStrategy no two
\* questions are about the same two items, and when next_comparison returns
\* no pair the engine is complete.
C25_QuickNoRepeatAndCompletes ==
    /\ \A i, j \in DOMAIN asked :
          i < j => PairSet(asked[i]) # PairSet(asked[j])
    /\ QuickSort_next_comparison(strategy) = None
          => QuickSort_is_complete(strategy)

C25_Witness ==
    /\ Len(strategy.items) = 4
    /\ Len(asked) >= 4
    /\ QuickSort_next_comparison(strategy) = None
    /\ QuickSort_is_complete(strategy)

\* compare on a QuickSortStrategy with any two distinct items of the engine
\* and either of them as the winner; `other` keeps the call.
QuickInitAny ==
    /\ \E items \in ItemLists :
          /\ Len(items) <= MaxAnyItems
          /\ strategy = QuickSort_new(items)
    /\ journal = <<>>
    /\ asked = <<>>
    /\ ret = NoRet
    /\ other = None
    /\ trace = <<>>
    /\ pos = 0
    /\ phase = "quick"
    /\ NoRankSet

QuickCompareAny(a, b, winner) ==
    /\ phase = "quick"
    /\ a \in Range(strategy.items)
    /\ b \in Range(strategy.items)
    /\ a # b
    /\ winner \in {a, b}
    /\ \E r \in {QuickSort_compare(strategy, a, b, winner)} :
          /\ strategy' = r.s
          /\ ret' = [op |-> "compare", ok |-> r.ok, order |-> <<>>]
    /\ other' = [a |-> a, b |-> b, winner |-> winner,
                 next |-> QuickSort_next_comparison(strategy)]
    /\ UNCHANGED <<journal, asked, trace, pos, phase,
                   rankset, store, ranking, launches>>

QuickAnyNext == \E a, b, w \in Ids : QuickCompareAny(a, b, w)

QuickAnySpec == QuickInitAny /\ [][QuickAnyNext]_vars

\* C26: after compare(a, b, winner) on a QuickSortStrategy that has a
\* question to ask, the ledger holds winner for the two items a and b.
C26_QuickCompareRecordsGivenPair ==
    (other # None /\ other.next # None)
       => get_comparison(strategy.comparisons, other.a, other.b)
             = <<other.winner>>

----------------------------------------------------------------------------
(* Claims about the merge units of MergeStrategy *)

Unlinked(op) == op.left_source = NoSource /\ op.right_source = NoSource

\* A unit that has merged its real inputs to the end.
UnitComplete(stack, idx) == Unlinked(stack[idx]) /\ OpDone(stack[idx])

\* A source of the layout that new built: none, or a unit now complete.
SourceComplete(stack, src) == src = NoSource \/ UnitComplete(stack, src)

\* C27: when compare returns, every unit whose predecessors in the layout
\* are all complete has no link left, has their outputs as its inputs, and
\* is done or has a front pair that is not in the ledger.
C27_AllowedProgressApplied ==
    ret.op = "compare_any" =>
       LET stack == strategy.state.merge_stack
           layout == initialize_merge_sort(strategy.items)
       IN \A idx \in DOMAIN stack :
             LET op == stack[idx]
                 ls == layout[idx].left_source
                 rs == layout[idx].right_source
             IN (SourceComplete(stack, ls) /\ SourceComplete(stack, rs)) =>
                   /\ Unlinked(op)
                   /\ ls # NoSource => op.left = stack[ls].result
                   /\ rs # NoSource => op.right = stack[rs].result
                   /\ \/ OpDone(op)
                      \/ /\ op.left_idx < Len(op.left)
                         /\ op.right_idx < Len(op.right)
                         /\ get_winner(strategy.comparisons,
                                       op.left[op.left_idx + 1],
                                       op.right[op.right_idx + 1]) = None

\* The items of seq that are in list, in the order of seq.
Restrict(seq, list) == SelectSeq(seq, LAMBDA x : x \in Range(list))

\* C28: when compare returns, in every unit without a link either both
\* inputs are exhausted or neither is, and the output holds the consumed
\* part of each input in that input's order.
C28_TailFlush ==
    ret.op = "compare_any" =>
       \A idx \in DOMAIN strategy.state.merge_stack :
          LET op == strategy.state.merge_stack[idx]
          IN Unlinked(op) =>
                /\ (op.left_idx = Len(op.left))
                      <=> (op.right_idx = Len(op.right))
                /\ Restrict(op.result, op.left)
                      = SubSeq(op.left, 1, op.left_idx)
                /\ Restrict(op.result, op.right)
                      = SubSeq(op.right, 1, op.right_idx)

C28_Witness ==
    /\ ret.op = "compare_any"
    /\ \E idx \in DOMAIN strategy.state.merge_stack :
          LET op == strategy.state.merge_stack[idx]
          IN /\ UnitComplete(strategy.state.merge_stack, idx)
             /\ Len(op.left) = 2
             /\ op.result = <<op.right[1]>> \o op.left

\* C29: a unit that still has a predecessor link has both cursors at 0 and
\* an empty output.
C29_SubstitutedBeforeStart ==
    \A idx \in DOMAIN strategy.state.merge_stack :
       LET op == strategy.state.merge_stack[idx]
       IN ~Unlinked(op) =>
             /\ op.left_idx = 0
             /\ op.right_idx = 0
             /\ op.result = <<>>

C29_Witness ==
    \E idx \in DOMAIN strategy.state.merge_stack :
       LET op == strategy.state.merge_stack[idx]
       IN /\ initialize_merge_sort(strategy.items)[idx].left_source # NoSource
          /\ Unlinked(op)
          /\ op.left_idx > 0
          /\ op.left_idx < Len(op.left)

\* x is a run of consecutive items of list.
IsSlice(x, list) ==
    \E i \in 1..Len(list) : x = SubSeq(list, i, i + Len(x) - 1)

\* C30: a new engine over n >= 2 items has n-1 units; each link points to a
\* unit of smaller index; the two inputs of a unit are disjoint runs of
\* consecutive items of the item list; the inputs of the last unit hold all
\* n items.
C30_MergeUnitLayout ==
    (strategy = new(strategy.items) /\ Len(strategy.items) >= 2) =>
       LET stack == strategy.state.merge_stack
           n == Len(strategy.items)
       IN /\ Len(stack) = n - 1
          /\ \A idx \in DOMAIN stack :
                /\ stack[idx].left_source < idx
                /\ stack[idx].right_source < idx
                /\ IsSlice(stack[idx].left, strategy.items)
                /\ IsSlice(stack[idx].right, strategy.items)
                /\ Range(stack[idx].left) \cap Range(stack[idx].right) = {}
          /\ Len(stack[n - 1].left) + Len(stack[n - 1].right) = n
          /\ Range(stack[n - 1].left) \cup Range(stack[n - 1].right)
                = Range(strategy.items)

C30_Witness ==
    /\ strategy = new(strategy.items)
    /\ Len(strategy.items) = 4
    /\ Len(strategy.state.merge_stack) = 3
    /\ strategy.state.merge_stack[3].left_source = 1
    /\ strategy.state.merge_stack[3].right_source = 2

\* The engine `after` is complete, has no question to ask and gives the
\* finalize order of s.
StillComplete(s, after) ==
    /\ is_complete(after)
    /\ next_comparison(after) = None
    /\ finalize(after).order = finalize(s).order

\* C31: a complete MergeStrategy has no question to ask, and a compare call
\* on any two of its items with any winner leaves it complete, with no
\* question to ask and with the same finalize order. compare reads its pair
\* through get_comparison_key only, so each pair is taken in key order.
C31_CompletionStable ==
    is_complete(strategy) =>
       /\ next_comparison(strategy) = None
       /\ \A a, b \in Range(strategy.items), w \in Ids :
             a < b =>
                \A after \in {compare(strategy, a, b, w).s} :
                   StillComplete(strategy, after)

\* A complete engine that was given an answer against its order.
C31_Witness ==
    /\ is_complete(strategy)
    /\ ret.op = "compare_any"
    /\ Len(strategy.items) = 3
    /\ \E key \in DOMAIN strategy.comparisons :
          LET w == strategy.comparisons[key]
              l == IF w = key[1] THEN key[2] ELSE key[1]
          IN RankOf(strategy.state.sorted, l) < RankOf(strategy.state.sorted, w)

----------------------------------------------------------------------------
(* Sessions and the other commands of the REPL *)

\* RankSet::remove_item: the item found by get_item leaves the map.
remove_item(rs, identifier) ==
    [rs EXCEPT !.items = SelectSeq(@, LAMBDA x : x # identifier)]

\* `items remove` with one identifier: not found is reported and nothing is
\* saved; otherwise the item is removed and the rankset saved.
ItemsRemove(identifier) ==
    /\ phase = "idle"
    /\ IF ~get_item(rankset, identifier)
       THEN /\ ret' = CliRet("items_remove", FALSE, <<>>, FALSE, <<>>)
            /\ UNCHANGED <<rankset, store>>
       ELSE /\ rankset' = remove_item(rankset, identifier)
            /\ store' = save_to(rankset')
            /\ ret' = CliRet("items_remove", TRUE, <<>>, FALSE, <<>>)
    /\ UNCHANGED <<strategy, journal, asked, other, trace, pos, phase,
                   ranking, launches>>

\* `exit` (or end of input) at the REPL: the rankset in memory is saved; the
\* program is then started again with `load` of that file.
Exit ==
    /\ phase = "idle"
    /\ launches < MaxRestarts
    /\ launches' = launches + 1
    /\ store' = save_to(rankset)
    /\ rankset' \in load(store')
    /\ ret' = CliRet("exit", TRUE, <<>>, FALSE, <<>>)
    /\ UNCHANGED <<strategy, journal, asked, other, trace, pos, phase,
                   ranking>>

ItemsNext ==
    \/ Start
    \/ \E choice \in 1..2 : AnswerPrompt(choice)
    \/ Quit
    \/ \E session_id \in SessionArgs : Resume(session_id)
    \/ \E identifier \in 1..MaxCliItems : ItemsRemove(identifier)
    \/ Exit

ItemsSpec == CliInit /\ [][ItemsNext]_vars

\* C32: when resume returns an error after it has taken a session, the
\* rankings in memory still hold that session, in progress and with its
\* journal.
C32_FailedResumeKeepsSession ==
    [][\A arg \in SessionArgs :
          (Resume(arg) /\ ~ret'.ok /\ ret'.id # <<>>) =>
             /\ SessionRecords(rankset'.rankings, ret'.id) # {}
             /\ SessionRecords(rankset'.rankings, ret'.id)
                   = SessionRecords(rankset.rankings, ret'.id)
             /\ \A r \in SessionRecords(rankset'.rankings, ret'.id) :
                   r.status = "in_progress"]_vars

----------------------------------------------------------------------------
(* The operations of a session, called in any order *)

\* Largest value of the clock that Utc::now() reads.
MaxClock == 4

\* Items that the comparisons of the session are about.
SessionItems == 1..2

\* A session just created; `pos` is the clock.
SessionInit ==
    /\ ranking = SessionInfo_new(<<1, 1>>, 0)
    /\ pos = 0
    /\ phase = "session"
    /\ strategy = None
    /\ journal = <<>>
    /\ asked = <<>>
    /\ ret = NoRet
    /\ other = None
    /\ trace = <<>>
    /\ rankset = None
    /\ store = None
    /\ launches = 0

SessionTouch ==
    /\ phase = "session"
    /\ pos < MaxClock
    /\ pos' = pos + 1
    /\ ranking' = touch(ranking, pos')
    /\ ret' = [op |-> "touch", ok |-> TRUE, order |-> <<>>]
    /\ UNCHANGED <<strategy, journal, asked, other, trace, phase,
                   rankset, store, launches>>

SessionAddComparison(a, b, winner) ==
    /\ phase = "session"
    /\ pos < MaxClock
    /\ a # b
    /\ winner \in {a, b}
    /\ pos' = pos + 1
    /\ ranking' = Session_add_comparison(ranking, a, b, winner, pos')
    /\ ret' = [op |-> "add_comparison", ok |-> TRUE, order |-> <<>>]
    /\ UNCHANGED <<strategy, journal, asked, other, trace, phase,
                   rankset, store, launches>>

SessionComplete ==
    /\ phase = "session"
    /\ pos < MaxClock
    /\ pos' = pos + 1
    /\ ranking' = complete(ranking, pos')
    /\ ret' = [op |-> "complete", ok |-> TRUE, order |-> <<>>]
    /\ UNCHANGED <<strategy, journal, asked, other, trace, phase,
                   rankset, store, launches>>

SessionNext ==
    \/ SessionTouch
    \/ \E a, b, w \in SessionItems : SessionAddComparison(a, b, w)
    \/ SessionComplete

SessionSpec == SessionInit /\ [][SessionNext]_vars

\* The status is completed exactly when the completion timestamp is set.
StatusMatchesTimestamp(r) == (r.status = "completed") <=> (r.completed # None)

\* C33: a new session is in progress without a completion timestamp; the
\* status is completed exactly when the completion timestamp is set; touch,
\* add_comparison and complete leave a completed session completed.
C33_StatusLifecycle ==
    /\ ranking.status = "in_progress"
    /\ ranking.completed = None
    /\ [][/\ StatusMatchesTimestamp(ranking)
          /\ StatusMatchesTimestamp(ranking')
          /\ ranking.status = "completed" => ranking'.status = "completed"
       ]_vars

\* A completed session that was touched after its completion.
C33_Witness ==
    /\ ranking.status = "completed"
    /\ ranking.comparisons # <<>>
    /\ ranking.last_updated > ranking.completed[1]
    /\ ret.op = "add_comparison"

\* No two records of a list of rankings have the same session id.
OneRecordPerSession(rankings) ==
    \A i, j \in DOMAIN rankings :
       i < j => rankings[i].id # rankings[j].id

\* C34: after any start, answer, quit, resume and completion steps, the
\* rankings in memory and in the saved file hold at most one record per
\* session id.
C34_OneRecordPerSession ==
    /\ OneRecordPerSession(rankset.rankings)
    /\ OneRecordPerSession(store.rankings)

\* A session saved, resumed and saved again, with its one record in the file.
C34_Witness ==
    /\ phase = "prompt"
    /\ other # None
    /\ other.id = ranking.id
    /\ Len(ranking.comparisons) >= 2
    /\ \E i \in DOMAIN store.rankings : store.rankings[i] = ranking

----------------------------------------------------------------------------
(* More claims about QuickSortStrategy *)

\* C35: for every item list and every strict total preference order, when
\* all answers of the loop over a QuickSortStrategy named the preferred item
\* and next_comparison returns no pair, the engine is complete and finalize
\* returns the items in preference order, best first.
C35_QuickSortsByPreference ==
    QuickSort_next_comparison(strategy) = None =>
       \A p \in Orders(strategy.items) :
          Consistent(p, journal) =>
             /\ QuickSort_is_complete(strategy)
             /\ QuickSort_finalize(strategy).ok
             /\ QuickSort_finalize(strategy).order = p

C35_Witness ==
    /\ QuickSort_next_comparison(strategy) = None
    /\ Len(strategy.items) = 4
    /\ Len(journal) >= 4
    /\ strategy.state.sorted # strategy.items
    /\ \E p \in Orders(strategy.items) : Consistent(p, journal)

\* serialize_state of a QuickSortStrategy, then deserialize_state into a
\* fresh engine over the same items; afterwards both engines are given the
\* same answers.
QuickTakeSnapshot ==
    /\ phase = "quick"
    /\ phase' = "quick_restored"
    /\ other' = QuickSort_deserialize_state(
                    QuickSort_new(strategy.items),
                    QuickSort_serialize_state(strategy))
    /\ pos' = 0
    /\ UNCHANGED <<strategy, journal, asked, ret, trace,
                   rankset, store, ranking, launches>>

QuickAnswerBoth(winner) ==
    /\ phase = "quick_restored"
    /\ LET q == QuickSort_next_comparison(strategy)
       IN /\ q # None
          /\ QuickSort_next_comparison(other) = q
          /\ winner \in {q[1], q[2]}
          /\ strategy' = QuickSort_compare(strategy, q[1], q[2], winner).s
          /\ other' = QuickSort_compare(other, q[1], q[2], winner).s
          /\ journal' = add_comparison(journal, q[1], q[2], winner)
          /\ asked' = Append(asked, q)
          /\ pos' = pos + 1
    /\ UNCHANGED <<ret, trace, phase, rankset, store, ranking, launches>>

QuickSnapshotNext ==
    \/ \E w \in Ids : QuickAnswer(w)
    \/ QuickTakeSnapshot
    \/ \E w \in Ids : QuickAnswerBoth(w)

QuickSnapshotSpec == QuickInit /\ [][QuickSnapshotNext]_vars

\* C36: a QuickSortStrategy restored from a snapshot, given the same answers
\* as the original, asks the same question at every step, is complete when
\* the original is, and gives the same finalize result.
C36_QuickSnapshotResume ==
    phase = "quick_restored" =>
       /\ QuickSort_next_comparison(other)
             = QuickSort_next_comparison(strategy)
       /\ QuickSort_is_complete(other) = QuickSort_is_complete(strategy)
       /\ QuickSort_finalize(other).ok = QuickSort_finalize(strategy).ok
       /\ QuickSort_finalize(other).order = QuickSort_finalize(strategy).order

\* A snapshot taken in the middle of a run, both engines run to the end.
C36_Witness ==
    /\ phase = "quick_restored"
    /\ Len(strategy.items) = 4
    /\ pos >= 2
    /\ Len(journal) > pos
    /\ QuickSort_is_complete(strategy)
    /\ QuickSort_is_complete(other)
    /\ other.comparisons # strategy.comparisons

\* C37, as amended: under a consistent preference the loop over a
\* QuickSortStrategy of n items asks at most n*(n-1)/2 questions.
C37_QuickAtMostAllPairs ==
    (\E p \in Orders(strategy.items) : Consistent(p, journal))
       => Len(asked) <= NumPairs(strategy)

\* A run that has asked about every pair of its four items.
C37_Witness ==
    /\ Len(strategy.items) = 4
    /\ Len(asked) = NumPairs(strategy)
    /\ QuickSort_is_complete(strategy)
    /\ \E p \in Orders(strategy.items) : Consistent(p, journal)

\* C37, as stated, for n >= 3: under a consistent preference the loop over
\* a QuickSortStrategy of n items asks fewer than n*(n-1)/2 questions.
C37_QuickFewerThanAllPairs ==
    (Len(strategy.items) >= 3
       /\ \E p \in Orders(strategy.items) : Consistent(p, journal))
       => Len(asked) < NumPairs(strategy)

====
